---- MODULE Spec2Model ----
(***************************************************************************)
(* Resample Lab: the recommendation engine (logic/recommendationEngine.ts) *)
(* as a state machine.  The engine's IEEE doubles are modelled in fixed    *)
(* point: a real x is the integer floor(x * SCALE).  Math.log10, Math.exp  *)
(* and Math.pow are computed digit by digit to that resolution, so a       *)
(* weight agrees with the double the code computes to a few units of       *)
(* 1/SCALE; values below 1/SCALE are 0.  Integers are 32 bits wide here,   *)
(* which keeps the counts of the input grids at or below 200000.           *)
(* String literals are the source's, with its two non-ASCII characters     *)
(* written "-" and "<=".                                                   *)
(***************************************************************************)
EXTENDS Integers, Sequences, FiniteSets, TLC

\* Fixed-point resolution: units per 1.0.
SCALE == 10000

Max(a, b) == IF a >= b THEN a ELSE b
Min(a, b) == IF a <= b THEN a ELSE b

\* a * b and a / b on fixed-point operands (a, b >= 0).
Mul(a, b) == (a * b) \div SCALE
DivFix(a, b) == (a * SCALE) \div b

\* An integer count, and a percentage n/100, as fixed-point numbers.
Fix(n) == n * SCALE
Pct(n) == (n * SCALE) \div 100

(***************************************************************************)
(* Math.log10(x), x >= 1: the binary logarithm by halving and repeated     *)
(* squaring of the mantissa, times log10(2) = 0.30103.                     *)
(***************************************************************************)
RECURSIVE Log2Frac(_, _)
Log2Frac(y, bit) ==
  IF bit = 0 THEN 0
  ELSE LET y2 == (y * y) \div SCALE
       IN IF y2 >= 2 * SCALE
          THEN bit + Log2Frac(y2 \div 2, bit \div 2)
          ELSE Log2Frac(y2, bit \div 2)

RECURSIVE Log2(_)
Log2(x) ==
  IF x >= 2 * SCALE THEN SCALE + Log2(x \div 2)
  ELSE Log2Frac(x, SCALE \div 2)

Log10(x) ==
  LET l == Log2(x) IN (l * 301) \div 1000 + (l * 3) \div 100000

(***************************************************************************)
(* Math.exp(z).  For z <= 0: e^-1 per whole unit, the Taylor series on the *)
(* fraction; below e^-10 the value is under the resolution.  For z > 0 the *)
(* reciprocal.                                                             *)
(***************************************************************************)
RECURSIVE ExpTaylor(_, _, _)
ExpTaylor(f, term, i) ==
  IF i > 9 \/ term = 0 THEN 0
  ELSE LET t == (term * f) \div (i * SCALE)
       IN (IF i % 2 = 1 THEN -t ELSE t) + ExpTaylor(f, t, i + 1)

RECURSIVE ExpNeg(_)
ExpNeg(z) ==
  IF z >= 10 * SCALE THEN 0
  ELSE IF z >= SCALE THEN (ExpNeg(z - SCALE) * 36788) \div 100000
  ELSE SCALE + ExpTaylor(z, SCALE, 1)

Exp(z) ==
  IF z <= 0 THEN ExpNeg(-z)
  ELSE (SCALE * SCALE) \div Max(1, ExpNeg(z))

\* Math.sqrt on fixed point (bisection), and Math.pow(s, 2.5) = s * s * sqrt(s).
RECURSIVE SqrtBisect(_, _, _)
SqrtBisect(n, lo, hi) ==
  IF hi - lo <= 1 THEN lo
  ELSE LET mid == (lo + hi) \div 2
       IN IF mid * mid <= n THEN SqrtBisect(n, mid, hi) ELSE SqrtBisect(n, lo, mid)

Sqrt(s) == SqrtBisect(s * SCALE, 0, SCALE + 1)
Pow25(s) == Mul(Mul(s, s), Sqrt(s))


(***************************************************************************)
(* types.ts, and the configuration tables of the engine.                   *)
(***************************************************************************)
OVERSAMPLE == "Oversample"
UNDERSAMPLE == "Undersample"
HYBRID == "Hybrid"
BASELINE == "No Resampling / Class Weights"
StrategyType == {OVERSAMPLE, UNDERSAMPLE, HYBRID, BASELINE}

COLORS ==
  [t \in StrategyType |->
     CASE t = OVERSAMPLE -> "#ef4444"
       [] t = UNDERSAMPLE -> "#3b82f6"
       [] t = HYBRID -> "#a855f7"
       [] t = BASELINE -> "#10b981"]

DIM_LOW == 20
DIM_HIGH == 100
MIN_SAMPLES_BASE == 200
EFFICIENCY_RATIO == 60
EFFICIENCY_TOTAL == 150000
SPARSITY_CRITICAL == Pct(60)

FOLD_STATUS_CONFIG ==
  [LOO |-> [color |-> "text-pink-400", bg |-> "bg-pink-500/20 border-pink-500/30",
            label |-> "Leave-One-Out Cross-Validation"],
   IMPOSSIBLE |-> [color |-> "text-zinc-500", bg |-> "bg-zinc-800 border-zinc-700",
                   label |-> "Statistically Invalid"],
   LOPO |-> [color |-> "text-purple-400", bg |-> "bg-purple-500/20 border-purple-500/30",
             label |-> "Leave-One-Positive-Out (Stratified)"],
   VARIANCE |-> [color |-> "text-amber-400", bg |-> "bg-amber-500/20 border-amber-500/30",
                 label |-> "High Variance Region"],
   STABLE |-> [color |-> "text-emerald-400", bg |-> "bg-emerald-500/20 border-emerald-500/30",
               label |-> "Stable Evaluation"]]

(***************************************************************************)
(* Math and domain helpers.  Arguments and results are fixed-point.        *)
(***************************************************************************)
sigmoid(val, threshold, k) ==
  LET x == Log10(Max(val, Fix(1)))
      t == Log10(Max(threshold, Fix(1)))
  IN (SCALE * SCALE) \div (SCALE + Exp(-k * (x - t)))

\* p is the integer feature count; the threshold is fixed-point.
getMinorityThreshold(p) ==
  IF p <= DIM_LOW THEN Fix(MIN_SAMPLES_BASE)
  ELSE IF p <= DIM_HIGH THEN Fix(MIN_SAMPLES_BASE) + ((p - DIM_LOW) * 25 * SCALE) \div 10
  ELSE Fix(400) + 200 * Log10(DivFix(p, 100))

\* Fault variant of getDistanceStability: the early return for sparsity < 0.3
\* is missing.
getDistanceStabilityNoThreshold(sparsity, homogeneity) ==
  LET baseInstability == Pow25(sparsity)
      distributionImpact == Pct(20) + Mul(Pct(80), homogeneity)
      risk == Mul(baseInstability, distributionImpact)
  IN Max(0, SCALE - risk)

getDistanceStability(sparsity, homogeneity) ==
  IF sparsity < Pct(30) THEN SCALE
  ELSE LET baseInstability == Pow25(sparsity)
           distributionImpact == Pct(20) + Mul(Pct(80), homogeneity)
           risk == Mul(baseInstability, distributionImpact)
       IN Max(0, SCALE - risk)

(***************************************************************************)
(* calculateWeights, in its four steps.                                    *)
(***************************************************************************)
\* Step 1, the dimensionality factors of p features.
IsLowDim(p) == SCALE - sigmoid(Fix(p), Fix(DIM_LOW), 12)
IsHighDim(p) == sigmoid(Fix(p), Fix(DIM_HIGH), 12)
IsMedDim(p) == SCALE - IsLowDim(p) - IsHighDim(p)

\* Fault variant of RawWeights: the high-dimensional regime gives its
\* non-scarce share to baseline instead of undersample.
RawWeightsHighAwardsBaseline(p, nMin, nTotal) ==
  LET threshold == getMinorityThreshold(p)
      isLowDim == IsLowDim(p)
      isHighDim == IsHighDim(p)
      isMedDim == IsMedDim(p)
      isTinyMin == SCALE - sigmoid(Fix(nMin), threshold, 10)
      ratio == DivFix(nTotal, Max(1, nMin))
      isHighRatio == sigmoid(ratio, Fix(EFFICIENCY_RATIO), 8)
      isLargeTotal == sigmoid(Fix(nTotal), Fix(EFFICIENCY_TOTAL), 8)
      efficiencyPressure == Max(isHighRatio, isLargeTotal)
      low == isLowDim > Pct(1)
      med == isMedDim > Pct(1)
      high == isHighDim > Pct(1)
      safeLow == Mul(isLowDim, SCALE - isTinyMin)
      safeMed == Mul(isMedDim, SCALE - isTinyMin)
      wO == IF low THEN Mul(isLowDim, isTinyMin) ELSE 0
      wU == (IF low THEN Mul(safeLow, efficiencyPressure) ELSE 0)
            + (IF med THEN Mul(safeMed, efficiencyPressure) ELSE 0)
      wH == (IF med THEN Mul(isMedDim, isTinyMin) ELSE 0)
            + (IF high THEN Mul(isHighDim, isTinyMin) ELSE 0)
      wB == (IF low THEN Mul(safeLow, SCALE - efficiencyPressure) ELSE 0)
            + (IF med THEN Mul(safeMed, SCALE - efficiencyPressure) ELSE 0)
            + (IF high THEN Mul(isHighDim, SCALE - isTinyMin) ELSE 0)
      totalW == wO + wU + wH + wB
  IN [wOversample |-> wO, wUndersample |-> wU, wHybrid |-> wH,
      wBaseline |-> IF totalW < SCALE \div 1000 THEN SCALE ELSE wB]

\* Fault variant of RegimeWeights: the low-dimensional regime does not give
\* the unpressured part of its non-scarce share to baseline.
RegimeWeightsLowDropsBaseline(p, nMin, nTotal) ==
  LET threshold == getMinorityThreshold(p)
      isLowDim == IsLowDim(p)
      isHighDim == IsHighDim(p)
      isMedDim == IsMedDim(p)
      isTinyMin == SCALE - sigmoid(Fix(nMin), threshold, 10)
      ratio == DivFix(nTotal, Max(1, nMin))
      isHighRatio == sigmoid(ratio, Fix(EFFICIENCY_RATIO), 8)
      isLargeTotal == sigmoid(Fix(nTotal), Fix(EFFICIENCY_TOTAL), 8)
      efficiencyPressure == Max(isHighRatio, isLargeTotal)
      low == isLowDim > Pct(1)
      med == isMedDim > Pct(1)
      high == isHighDim > Pct(1)
      safeLow == Mul(isLowDim, SCALE - isTinyMin)
      safeMed == Mul(isMedDim, SCALE - isTinyMin)
      wO == IF low THEN Mul(isLowDim, isTinyMin) ELSE 0
      wU == (IF low THEN Mul(safeLow, efficiencyPressure) ELSE 0)
            + (IF med THEN Mul(safeMed, efficiencyPressure) ELSE 0)
            + (IF high THEN Mul(isHighDim, SCALE - isTinyMin) ELSE 0)
      wH == (IF med THEN Mul(isMedDim, isTinyMin) ELSE 0)
            + (IF high THEN Mul(isHighDim, isTinyMin) ELSE 0)
      wB == (IF med THEN Mul(safeMed, SCALE - efficiencyPressure) ELSE 0)
  IN [wOversample |-> wO, wUndersample |-> wU, wHybrid |-> wH, wBaseline |-> wB]

\* Steps 1-3: the weights the three regimes distribute, before the fallback.
RegimeWeights(p, nMin, nTotal) ==
  LET threshold == getMinorityThreshold(p)
      isLowDim == IsLowDim(p)
      isHighDim == IsHighDim(p)
      isMedDim == IsMedDim(p)
      isTinyMin == SCALE - sigmoid(Fix(nMin), threshold, 10)
      ratio == DivFix(nTotal, Max(1, nMin))
      isHighRatio == sigmoid(ratio, Fix(EFFICIENCY_RATIO), 8)
      isLargeTotal == sigmoid(Fix(nTotal), Fix(EFFICIENCY_TOTAL), 8)
      efficiencyPressure == Max(isHighRatio, isLargeTotal)
      low == isLowDim > Pct(1)
      med == isMedDim > Pct(1)
      high == isHighDim > Pct(1)
      safeLow == Mul(isLowDim, SCALE - isTinyMin)
      safeMed == Mul(isMedDim, SCALE - isTinyMin)
      wO == IF low THEN Mul(isLowDim, isTinyMin) ELSE 0
      wU == (IF low THEN Mul(safeLow, efficiencyPressure) ELSE 0)
            + (IF med THEN Mul(safeMed, efficiencyPressure) ELSE 0)
            + (IF high THEN Mul(isHighDim, SCALE - isTinyMin) ELSE 0)
      wH == (IF med THEN Mul(isMedDim, isTinyMin) ELSE 0)
            + (IF high THEN Mul(isHighDim, isTinyMin) ELSE 0)
      wB == (IF low THEN Mul(safeLow, SCALE - efficiencyPressure) ELSE 0)
            + (IF med THEN Mul(safeMed, SCALE - efficiencyPressure) ELSE 0)
  IN [wOversample |-> wO, wUndersample |-> wU, wHybrid |-> wH, wBaseline |-> wB]

\* totalW: the sum of the four weights.
TotalW(w) == w.wOversample + w.wUndersample + w.wHybrid + w.wBaseline

\* Steps 1-3 and the fallback: the weights before the sparsity penalty.
RawWeights(p, nMin, nTotal) ==
  CHOOSE raw \in
    {[w EXCEPT !.wBaseline = IF TotalW(w) < SCALE \div 1000 THEN SCALE ELSE @] :
       w \in {RegimeWeights(p, nMin, nTotal)}} : TRUE

\* Fault variant of DominantOriginal: hybrid is tested before oversample.
DominantOriginalHybridFirst(w) ==
  LET maxOrig == Max(Max(w.wOversample, w.wUndersample), Max(w.wHybrid, w.wBaseline))
  IN IF maxOrig = w.wHybrid THEN HYBRID
     ELSE IF maxOrig = w.wOversample THEN OVERSAMPLE
     ELSE IF maxOrig = w.wUndersample THEN UNDERSAMPLE
     ELSE BASELINE

\* The dominant strategy before the penalty.
DominantOriginal(w) ==
  LET maxOrig == Max(Max(w.wOversample, w.wUndersample), Max(w.wHybrid, w.wBaseline))
  IN IF maxOrig = w.wOversample THEN OVERSAMPLE
     ELSE IF maxOrig = w.wHybrid THEN HYBRID
     ELSE IF maxOrig = w.wUndersample THEN UNDERSAMPLE
     ELSE BASELINE

\* Fault variant of ApplyPenalty: the penalty itself is subtracted, not the
\* penalty fraction of the weight.
ApplyPenaltyAbsolute(w, penalty) ==
  IF penalty > 0
  THEN LET wO1 == w.wOversample - penalty
           wB1 == w.wBaseline + Mul(wO1, penalty)
           wH1 == w.wHybrid - penalty
           wB2 == wB1 + Mul(wH1, penalty)
       IN [wOversample |-> wO1, wUndersample |-> w.wUndersample,
           wHybrid |-> wH1, wBaseline |-> wB2]
  ELSE w

\* Step 4: the statements of the penalty block, in their order.
ApplyPenalty(w, penalty) ==
  IF penalty > 0
  THEN LET wO1 == w.wOversample - Mul(w.wOversample, penalty)
           wB1 == w.wBaseline + Mul(wO1, penalty)
           wH1 == w.wHybrid - Mul(w.wHybrid, penalty)
           wB2 == wB1 + Mul(wH1, penalty)
       IN [wOversample |-> wO1, wUndersample |-> w.wUndersample,
           wHybrid |-> wH1, wBaseline |-> wB2]
  ELSE w

\* The locals of one call at its return: the weights before the penalty, the
\* penalty, and the returned WeightResult.
\* The locals of calculateWeights at its return, given the regime weights of
\* line 150, the weights after the fallback and the stability.
FrameOf(regime, raw, stability) ==
  LET penalty == SCALE - stability
      w == ApplyPenalty(raw, penalty)
  IN [totalW |-> TotalW(regime),
      raw |-> raw, penalty |-> penalty,
      ret |-> [wOversample |-> w.wOversample, wUndersample |-> w.wUndersample,
               wHybrid |-> w.wHybrid, wBaseline |-> w.wBaseline,
               stability |-> stability, dominantOriginal |-> DominantOriginal(raw)]]

CalculateWeightsFrame(p, nMin, nTotal, sparsity, homogeneity) ==
  CHOOSE f \in
    {FrameOf(regime, raw, stability) :
       regime \in {RegimeWeights(p, nMin, nTotal)},
       raw \in {RawWeights(p, nMin, nTotal)},
       stability \in {getDistanceStability(sparsity, homogeneity)}} : TRUE

calculateWeights(p, nMin, nTotal, sparsity, homogeneity) ==
  CalculateWeightsFrame(p, nMin, nTotal, sparsity, homogeneity).ret

(***************************************************************************)
(* Visual generators.                                                      *)
(***************************************************************************)
HexDigit(c) ==
  CASE c = "0" -> 0 [] c = "1" -> 1 [] c = "2" -> 2 [] c = "3" -> 3
    [] c = "4" -> 4 [] c = "5" -> 5 [] c = "6" -> 6 [] c = "7" -> 7
    [] c = "8" -> 8 [] c = "9" -> 9 [] c = "a" -> 10 [] c = "b" -> 11
    [] c = "c" -> 12 [] c = "d" -> 13 [] c = "e" -> 14 [] c = "f" -> 15

\* parseInt(s, 16) of a two-digit string.
ParseHex2(s) == 16 * HexDigit(SubSeq(s, 1, 1)) + HexDigit(SubSeq(s, 2, 2))

hexToRgb(hex) ==
  [r |-> ParseHex2(SubSeq(hex, 2, 3)),
   g |-> ParseHex2(SubSeq(hex, 4, 5)),
   b |-> ParseHex2(SubSeq(hex, 6, 7))]

STRATEGY_RGB == [t \in StrategyType |-> hexToRgb(COLORS[t])]

\* Fault variant of Accumulate: the weight is not divided by totalWeight.
AccumulateUnnormalized(acc, weight, totalWeight, type) ==
  IF weight > 0
  THEN LET c == STRATEGY_RGB[type]
       IN [r |-> acc.r + c.r * weight, g |-> acc.g + c.g * weight, b |-> acc.b + c.b * weight]
  ELSE acc

\* One call of the accumulate helper: acc is the running {r, g, b}.
Accumulate(acc, weight, totalWeight, type) ==
  IF weight > 0
  THEN LET normW == DivFix(weight, totalWeight)
           c == STRATEGY_RGB[type]
       IN [r |-> acc.r + c.r * normW, g |-> acc.g + c.g * normW, b |-> acc.b + c.b * normW]
  ELSE acc

\* The body of getSmoothStrategyRGB after its calculateWeights call returned w.
\* The RGB channels are fixed-point numbers.
Blend(w) ==
  LET sum == w.wOversample + w.wUndersample + w.wHybrid + w.wBaseline
      totalWeight == IF sum = 0 THEN SCALE ELSE sum
      a1 == Accumulate([r |-> 0, g |-> 0, b |-> 0], w.wOversample, totalWeight, OVERSAMPLE)
      a2 == Accumulate(a1, w.wUndersample, totalWeight, UNDERSAMPLE)
      a3 == Accumulate(a2, w.wHybrid, totalWeight, HYBRID)
  IN Accumulate(a3, w.wBaseline, totalWeight, BASELINE)

getSmoothStrategyRGB(p, nMin, nTotal, sparsity, homogeneity) ==
  Blend(calculateWeights(p, nMin, nTotal, sparsity, homogeneity))

\* Fault variant of getFoldStabilityRGB: the stable band (minPerFold >= 30) is
\* missing, the interpolation runs on.
getFoldStabilityRGBNoStableBand(minority, folds) ==
  LET minPerFold == DivFix(minority, Max(1, folds))
  IN IF minPerFold < Fix(1) THEN [r |-> Fix(20), g |-> Fix(10), b |-> Fix(10)]
     ELSE IF minPerFold < Fix(5) THEN [r |-> Fix(220), g |-> Fix(40), b |-> Fix(40)]
     ELSE LET t == (minPerFold - Fix(5)) \div 25
          IN [r |-> Fix(239) - (239 - 16) * t,
              g |-> Fix(68) + (185 - 68) * t,
              b |-> Fix(68) + (129 - 68) * t]

\* Fault variant of getFoldStabilityRGB: the red band includes minPerFold = 5.
getFoldStabilityRGBRedIncludesFive(minority, folds) ==
  LET minPerFold == DivFix(minority, Max(1, folds))
  IN IF minPerFold < Fix(1) THEN [r |-> Fix(20), g |-> Fix(10), b |-> Fix(10)]
     ELSE IF minPerFold <= Fix(5) THEN [r |-> Fix(220), g |-> Fix(40), b |-> Fix(40)]
     ELSE IF minPerFold < Fix(30)
       THEN LET t == (minPerFold - Fix(5)) \div 25
            IN [r |-> Fix(239) - (239 - 16) * t,
                g |-> Fix(68) + (185 - 68) * t,
                b |-> Fix(68) + (129 - 68) * t]
     ELSE [r |-> Fix(16), g |-> Fix(185), b |-> Fix(129)]

getFoldStabilityRGB(minority, folds) ==
  LET minPerFold == DivFix(minority, Max(1, folds))
  IN IF minPerFold < Fix(1) THEN [r |-> Fix(20), g |-> Fix(10), b |-> Fix(10)]
     ELSE IF minPerFold < Fix(5) THEN [r |-> Fix(220), g |-> Fix(40), b |-> Fix(40)]
     ELSE IF minPerFold < Fix(30)
       THEN LET t == (minPerFold - Fix(5)) \div 25
            IN [r |-> Fix(239) - (239 - 16) * t,
                g |-> Fix(68) + (185 - 68) * t,
                b |-> Fix(68) + (129 - 68) * t]
     ELSE [r |-> Fix(16), g |-> Fix(185), b |-> Fix(129)]

(***************************************************************************)
(* Number formatting: Math.round, toFixed and the default number-to-string *)
(* conversion, on fixed-point operands >= 0.                               *)
(***************************************************************************)
Round(x) == (x + SCALE \div 2) \div SCALE
Floor(x) == x \div SCALE
Pad2(n) == IF n < 10 THEN "0" \o ToString(n) ELSE ToString(n)
\* x rounded to hundredths / tenths, as a count of hundredths / tenths.
Hundredths(x) == (x * 100 + SCALE \div 2) \div SCALE
Tenths(x) == (x * 10 + SCALE \div 2) \div SCALE
ToFixed0(x) == ToString(Round(x))
ToFixed1(x) == ToString(Tenths(x) \div 10) \o "." \o ToString(Tenths(x) % 10)
ToFixed2(x) == ToString(Hundredths(x) \div 100) \o "." \o Pad2(Hundredths(x) % 100)
\* String(n) for a number n of at most two decimals, given as hundredths.
NumberToString(h) ==
  IF h % 100 = 0 THEN ToString(h \div 100)
  ELSE IF h % 10 = 0 THEN ToString(h \div 100) \o "." \o ToString((h % 100) \div 10)
  ELSE ToString(h \div 100) \o "." \o Pad2(h % 100)

(***************************************************************************)
(* (a / b).toFixed(2) for integers 0 <= a < b, as a count of hundredths.   *)
(* toFixed rounds the double q nearest to a / b to the nearest hundredth;  *)
(* when a / b is halfway between two hundredths the result depends on      *)
(* which side of a / b the double lies (the larger hundredth when q is     *)
(* exact).  q is a * 2^s / b rounded to an integer of 53 bits, so q >= a/b *)
(* iff the remainder r of a * 2^s by b is 0 or more than b / 2.            *)
(***************************************************************************)
RECURSIVE ShiftCount(_, _, _)
ShiftCount(a, b, t) == IF a >= b THEN t ELSE ShiftCount(2 * a, b, t + 1)

\* 2^n modulo b, by repeated squaring (b < 2^15).
RECURSIVE PowerOfTwoMod(_, _)
PowerOfTwoMod(n, b) ==
  IF n = 0 THEN 1 % b
  ELSE LET h == PowerOfTwoMod(n \div 2, b)
       IN IF n % 2 = 0 THEN (h * h) % b ELSE (2 * h * h) % b

DoubleNotBelow(a, b) ==
  LET r == ((a % b) * PowerOfTwoMod(52 + ShiftCount(a, b, 0), b)) % b
  IN r = 0 \/ 2 * r > b

\* Fault variant of QuotientToFixed2: the digits after the second are cut off.
QuotientToFixed2Truncating(a, b) == (100 * a) \div b

QuotientToFixed2(a, b) ==
  LET h == (100 * a) \div b
      rem == (100 * a) % b
  IN IF 2 * rem > b THEN h + 1
     ELSE IF 2 * rem < b THEN h
     ELSE IF DoubleNotBelow(a, b) THEN h + 1 ELSE h

\* haystack.includes(needle)
Includes(haystack, needle) ==
  \E i \in 1..(Len(haystack) - Len(needle) + 1) :
     SubSeq(haystack, i, i + Len(needle) - 1) = needle


(***************************************************************************)
(* analyzeFolds.  minority, folds and total are integer counts.            *)
(***************************************************************************)
\* The doubles that a division by zero produces.
Infinity == "Infinity"
NegInfinity == "-Infinity"
NaN == "NaN"

\* Fault variant of FoldStatusKey: the impossible test is missing.
FoldStatusKeyNoImpossible(isLOOCV, isStratificationImpossible, minPerFold) ==
  IF isLOOCV THEN "LOO"
  ELSE IF minPerFold < Pct(150) THEN "LOPO"
  ELSE IF minPerFold < Fix(15) THEN "VARIANCE"
  ELSE "STABLE"

\* Fault variant of FoldStatusKey: the impossible test comes before the
\* Leave-One-Out test.
FoldStatusKeyImpossibleFirst(isLOOCV, isStratificationImpossible, minPerFold) ==
  IF isStratificationImpossible THEN "IMPOSSIBLE"
  ELSE IF isLOOCV THEN "LOO"
  ELSE IF minPerFold < Pct(150) THEN "LOPO"
  ELSE IF minPerFold < Fix(15) THEN "VARIANCE"
  ELSE "STABLE"

\* The if-chain that picks statusKey: the first match wins.
FoldStatusKey(isLOOCV, isStratificationImpossible, minPerFold) ==
  IF isLOOCV THEN "LOO"
  ELSE IF isStratificationImpossible THEN "IMPOSSIBLE"
  ELSE IF minPerFold < Pct(150) THEN "LOPO"
  ELSE IF minPerFold < Fix(15) THEN "VARIANCE"
  ELSE "STABLE"

\* Fault variant of ReturnedViability: the override to 0 is missing.
ReturnedViabilityNoOverride(viabilityScore, isLOOCV, isStratificationImpossible) ==
  viabilityScore

\* The viabilityScore field of the returned FoldAnalysis.
ReturnedViability(viabilityScore, isLOOCV, isStratificationImpossible) ==
  IF isStratificationImpossible /\ ~isLOOCV THEN 0 ELSE viabilityScore

\* Fault variant of IsLOOCV: the test against the row count is missing.
IsLOOCVLargeOnly(effectiveFolds, total) == effectiveFolds >= 5000

\* The Leave-One-Out test on the effective fold count.
IsLOOCV(effectiveFolds, total) == effectiveFolds >= total \/ effectiveFolds >= 5000

analyzeFolds(minority, folds, total) ==
  LET effectiveFolds == Min(folds, total)
      \* x / 0 is Infinity for x > 0, -Infinity for x < 0 and NaN for x = 0
      zeroFolds == effectiveFolds = 0
      minPerFold == IF zeroFolds THEN (IF minority = 0 THEN NaN ELSE Infinity)
                    ELSE DivFix(minority, effectiveFolds)
      \* Math.floor(minority * ((k - 1) / k)), on exact integers
      minInTraining == IF zeroFolds THEN (IF minority = 0 THEN NaN ELSE NegInfinity)
                       ELSE (minority * (effectiveFolds - 1)) \div effectiveFolds
      \* Math.min(100, Infinity) is 100, Math.min(100, NaN) is NaN
      viabilityScore == IF zeroFolds THEN (IF minority = 0 THEN NaN ELSE Fix(100))
                        ELSE Min(Fix(100), (minPerFold * 100) \div 30)
      isLOOCV == IsLOOCV(effectiveFolds, total)
      isStratificationImpossible == effectiveFolds > minority
      statusKey == FoldStatusKey(isLOOCV, isStratificationImpossible, minPerFold)
      validationRisk ==
        CASE statusKey = "LOO" ->
               "Validation reduces to binary (0/1) loss. Probability calibration is impossible."
          [] statusKey = "IMPOSSIBLE" ->
               "Folds (k=" \o ToString(effectiveFolds) \o ") > Minority Samples ("
                 \o ToString(minority) \o "). Stratification is impossible."
          [] statusKey = "LOPO" ->
               "Single positive sample per fold prevents variance estimation."
          [] statusKey = "VARIANCE" ->
               "Low density (" \o ToFixed1(minPerFold)
                 \o " samples/fold) results in noisy performance metrics."
          [] statusKey = "STABLE" ->
               "Sufficient density for stable metric estimation (e.g., AUC-ROC, F1)."
      trainingImpact ==
        CASE statusKey = "LOO" ->
               "Maximizes training data (N=" \o ToString(total - 1)
                 \o "), but computationally expensive."
          [] statusKey = "IMPOSSIBLE" -> "N/A"
          [] statusKey = "LOPO" ->
               "Maximized Training (~" \o ToString(minority - 1) \o " positives per round)."
          [] statusKey = "VARIANCE" ->
               "High training data retention, but reduced validation reliability."
          [] statusKey = "STABLE" -> "Standard Stratified K-Fold Split."
      config == FOLD_STATUS_CONFIG[statusKey]
      \* Number(displayMinPerFold), in hundredths; Infinity < 1 and NaN < 1 are
      \* false and Math.floor leaves both as they are
      displayMinPerFold ==
        IF zeroFolds THEN minPerFold
        ELSE IF minPerFold < Fix(1) THEN QuotientToFixed2(minority, effectiveFolds)
        ELSE 100 * Floor(minPerFold)
  IN [minPerFold |-> displayMinPerFold,
      minInTraining |-> minInTraining,
      label |-> config.label,
      statusColor |-> config.color,
      statusBg |-> config.bg,
      viabilityScore |-> ReturnedViability(viabilityScore, isLOOCV, isStratificationImpossible),
      validationRisk |-> validationRisk,
      trainingImpact |-> trainingImpact]


(***************************************************************************)
(* analyzeDataset.                                                         *)
(***************************************************************************)
\* The value of an optional field that was never assigned.
Undefined == "undefined"

\* Fault variant of Winner: the comparisons are >= instead of >.
WinnerNonStrict(w) ==
  LET s1 == IF w.wOversample >= w.wBaseline
            THEN [maxVal |-> w.wOversample, strategy |-> OVERSAMPLE]
            ELSE [maxVal |-> w.wBaseline, strategy |-> BASELINE]
      s2 == IF w.wHybrid >= s1.maxVal
            THEN [maxVal |-> w.wHybrid, strategy |-> HYBRID] ELSE s1
      s3 == IF w.wUndersample >= s2.maxVal
            THEN [maxVal |-> w.wUndersample, strategy |-> UNDERSAMPLE] ELSE s2
  IN s3.strategy

\* "Determine winner": baseline first, then the three strict comparisons.
Winner(w) ==
  LET s1 == IF w.wOversample > w.wBaseline
            THEN [maxVal |-> w.wOversample, strategy |-> OVERSAMPLE]
            ELSE [maxVal |-> w.wBaseline, strategy |-> BASELINE]
      s2 == IF w.wHybrid > s1.maxVal
            THEN [maxVal |-> w.wHybrid, strategy |-> HYBRID] ELSE s1
      s3 == IF w.wUndersample > s2.maxVal
            THEN [maxVal |-> w.wUndersample, strategy |-> UNDERSAMPLE] ELSE s2
  IN s3.strategy

WasForcedToBaseline(strategy, dominantOriginal) ==
  strategy = BASELINE /\ (dominantOriginal = OVERSAMPLE \/ dominantOriginal = HYBRID)

\* Fault variant of InitialResult: the colour is hard-wired to the baseline's.
InitialResultFixedColor(strategy) ==
  [title |-> strategy, description |-> "", rationale |-> "",
   sparsityWarning |-> Undefined, color |-> COLORS[BASELINE]]

\* The text fields and the colour of the initial result literal.
InitialResult(strategy) ==
  [title |-> strategy, description |-> "", rationale |-> "",
   sparsityWarning |-> Undefined, color |-> COLORS[strategy]]

\* Fault variants of SpecializedColor: the strategy tag instead of its colour,
\* and the colour of the final (baseline) strategy.
SpecializedColorTag(dominantOriginal) == dominantOriginal
SpecializedColorBaseline(dominantOriginal) == COLORS[BASELINE]

\* The colour assigned in the structured-sparsity branch.
SpecializedColor(dominantOriginal) == COLORS[dominantOriginal]

\* The branch on wasForcedToBaseline and the six dimensionality templates:
\* the fields title, description, rationale, sparsityWarning and color.
Narrative(params, strategy, weights) ==
  LET features == params.features
      minority == params.minority
      sparsity == params.sparsity
      sparsityHomogeneity == params.sparsityHomogeneity
      dominantOriginal == weights.dominantOriginal
      threshold == getMinorityThreshold(features)
      ratio == DivFix(params.total, Max(1, minority))
      transitionNote ==
        IF Fix(minority) > (threshold * 8) \div 10 /\ Fix(minority) < (threshold * 12) \div 10
        THEN " You are in a complex transition zone. " ELSE ""
      useUndersampling == strategy = UNDERSAMPLE
      extreme == ratio > Fix(EFFICIENCY_RATIO)
      pctSparsity == ToString(Round(sparsity * 100))
      base == InitialResult(strategy)
  IN IF WasForcedToBaseline(strategy, dominantOriginal)
     THEN IF sparsity > Pct(50) /\ sparsityHomogeneity < Pct(30)
          THEN [title |-> "Specialized " \o dominantOriginal,
                description |-> "Structured Sparsity Detected.",
                rationale |-> "High sparsity (" \o pctSparsity
                  \o "%) but concentrated. Standard interpolation (SMOTE) is unreliable. Strategy: Process features separately-interpolate dense columns, impute sparse ones.",
                sparsityWarning |-> "Recommendation: Utilize SMOTE-NC or feature-specific handling.",
                color |-> SpecializedColor(dominantOriginal)]
          ELSE [base EXCEPT
                !.title = "No Resampling / Class Weights",
                !.description = "Uniform Sparsity Risks Interpolation.",
                !.rationale = "Normally " \o dominantOriginal \o " is best, but " \o pctSparsity
                  \o "% uniform sparsity (Stability: " \o ToFixed2(weights.stability)
                  \o ") renders synthetic neighborhood generation unreliable. Use Class Weights.",
                !.sparsityWarning = "Critical Sparsity: Euclidean distance metrics are unstable."]
     ELSE IF features <= DIM_LOW
     THEN IF Fix(minority) < threshold
          THEN [base EXCEPT
                !.title = "Oversampling or Hybrid",
                !.description = "Small Dataset, Low Dimensionality.",
                !.rationale = "High scarcity relative to feature space (p=" \o ToString(features)
                  \o ")." \o transitionNote
                  \o " Avoid data reduction. Augment minority class via synthetic generation (e.g., SMOTE)."]
          ELSE [base EXCEPT
                !.title = IF useUndersampling THEN "Undersampling (Efficiency Priority)"
                          ELSE "No Resampling / Class Weights",
                !.description = IF useUndersampling
                                THEN (IF extreme THEN "Extreme Class Imbalance."
                                      ELSE "Large Scale Dataset.")
                                ELSE "Sufficient Signal Strength.",
                !.rationale = IF useUndersampling
                  THEN "Efficiency required. "
                       \o (IF extreme
                           THEN "Class imbalance (1:" \o ToFixed0(ratio) \o ") is extreme."
                           ELSE "Dataset magnitude justifies downsampling for computational feasibility.")
                  ELSE "Signal-to-noise ratio likely sufficient." \o transitionNote
                       \o " Utilize Class Weights or Cost-Sensitive Learning."]
     ELSE IF features <= DIM_HIGH
     THEN IF Fix(minority) < threshold
          THEN [base EXCEPT
                !.title = "Hybrid Strategy (Over + Under)",
                !.description = "High Dimensionality Relative to Minority Count.",
                !.rationale = "Need ~" \o ToString(Round(threshold))
                  \o " samples to trust distribution." \o transitionNote
                  \o " Pure oversampling may amplify noise. Recommended: Hybrid approach (e.g., SMOTE + Edited Nearest Neighbors)."]
          ELSE [base EXCEPT
                !.title = IF useUndersampling THEN "Undersampling (Efficiency Priority)"
                          ELSE "No Resampling / Hybrid",
                !.description = IF useUndersampling
                                THEN "Moderate Sample Regime, High Efficiency."
                                ELSE "Moderate Sample Regime.",
                !.rationale = IF useUndersampling
                  THEN "Undersampling optimal for speed and 1:" \o ToFixed0(ratio) \o " ratio."
                  ELSE "Prioritize Class Weights. If Recall is insufficient, introduce mild oversampling."]
     ELSE IF Fix(minority) < threshold
          THEN [base EXCEPT
                !.title = "Hybrid or Algorithmic Approaches",
                !.description = "High-Dimensional, Sparse Regime.",
                !.rationale = "High dimensionality (p=" \o ToString(features)
                  \o ") induces sparsity (Curse of Dimensionality)." \o transitionNote
                  \o " Combine generation with aggressive cleaning (Hybrid) or utilize Anomaly Detection models."]
          ELSE [base EXCEPT
                !.title = "Undersampling Strategy",
                !.description = "High-Dimensional, Large Scale Data.",
                !.rationale = "Undersampling reduces computational load and noise without disrupting the manifold structure in high dimensions."]

\* Fault variant of SparsityWarning: a warning that is already set is replaced.
SparsityWarningOverwrite(current, sparsity, sparsityHomogeneity) ==
  IF sparsity > SPARSITY_CRITICAL
  THEN IF sparsityHomogeneity < Pct(40)
       THEN "Structured Sparsity: Use Nominal/Continuous variants (e.g., SMOTE-NC)."
       ELSE "Caution: High sparsity reduces distance metric reliability."
  ELSE current

\* Fault variant of SparsityWarning: the two phrasings are exchanged.
SparsityWarningSwapped(current, sparsity, sparsityHomogeneity) ==
  IF current = Undefined /\ sparsity > SPARSITY_CRITICAL
  THEN IF sparsityHomogeneity < Pct(40)
       THEN "Caution: High sparsity reduces distance metric reliability."
       ELSE "Structured Sparsity: Use Nominal/Continuous variants (e.g., SMOTE-NC)."
  ELSE current

\* The independent sparsity warning after the narrative.
SparsityWarning(current, sparsity, sparsityHomogeneity) ==
  IF current = Undefined /\ sparsity > SPARSITY_CRITICAL
  THEN IF sparsityHomogeneity < Pct(40)
       THEN "Structured Sparsity: Use Nominal/Continuous variants (e.g., SMOTE-NC)."
       ELSE "Caution: High sparsity reduces distance metric reliability."
  ELSE current

\* Fault variant of FoldAdvice: folds > minority is tested before Leave-One-Out.
FoldAdviceInvalidFirst(foldAnalysis, folds, minority) ==
  IF folds > minority
  THEN [foldTarget |-> "INVALID CONFIGURATION",
        samplingMix |-> "Cannot stratify " \o ToString(folds) \o " folds with "
                          \o ToString(minority) \o " samples."]
  ELSE IF Includes(foldAnalysis.label, "Leave-One-Out")
  THEN [foldTarget |-> "Leave-One-Out (LOOCV)", samplingMix |-> "N/A (All data utilized)."]
  ELSE IF minority < 200
  THEN [foldTarget |-> "Target >15 samples per fold (Current: "
                         \o NumberToString(foldAnalysis.minPerFold) \o ").",
        samplingMix |-> "Primary: Oversampling. Maintain synthetic ratio <= 3:1."]
  ELSE IF minority < 500
  THEN [foldTarget |-> "Target >30 samples per fold (Current: "
                         \o NumberToString(foldAnalysis.minPerFold) \o ").",
        samplingMix |-> "Baseline: None. If unstable, introduce moderate oversampling."]
  ELSE [foldTarget |-> "Sufficient Minority Samples.",
        samplingMix |-> "Undersampling or Ensemble Methods."]

\* Fault variant: the substring test uses the shorter needle "Leave-One".
FoldAdviceShortNeedle(foldAnalysis, folds, minority) ==
  IF Includes(foldAnalysis.label, "Leave-One")
  THEN [foldTarget |-> "Leave-One-Out (LOOCV)", samplingMix |-> "N/A (All data utilized)."]
  ELSE IF folds > minority
  THEN [foldTarget |-> "INVALID CONFIGURATION",
        samplingMix |-> "Cannot stratify " \o ToString(folds) \o " folds with "
                          \o ToString(minority) \o " samples."]
  ELSE IF minority < 200
  THEN [foldTarget |-> "Target >15 samples per fold (Current: "
                         \o NumberToString(foldAnalysis.minPerFold) \o ").",
        samplingMix |-> "Primary: Oversampling. Maintain synthetic ratio <= 3:1."]
  ELSE IF minority < 500
  THEN [foldTarget |-> "Target >30 samples per fold (Current: "
                         \o NumberToString(foldAnalysis.minPerFold) \o ").",
        samplingMix |-> "Baseline: None. If unstable, introduce moderate oversampling."]
  ELSE [foldTarget |-> "Sufficient Minority Samples.",
        samplingMix |-> "Undersampling or Ensemble Methods."]

\* The fields foldTarget and samplingMix.
FoldAdvice(foldAnalysis, folds, minority) ==
  IF Includes(foldAnalysis.label, "Leave-One-Out")
  THEN [foldTarget |-> "Leave-One-Out (LOOCV)", samplingMix |-> "N/A (All data utilized)."]
  ELSE IF folds > minority
  THEN [foldTarget |-> "INVALID CONFIGURATION",
        samplingMix |-> "Cannot stratify " \o ToString(folds) \o " folds with "
                          \o ToString(minority) \o " samples."]
  ELSE IF minority < 200
  THEN [foldTarget |-> "Target >15 samples per fold (Current: "
                         \o NumberToString(foldAnalysis.minPerFold) \o ").",
        samplingMix |-> "Primary: Oversampling. Maintain synthetic ratio <= 3:1."]
  ELSE IF minority < 500
  THEN [foldTarget |-> "Target >30 samples per fold (Current: "
                         \o NumberToString(foldAnalysis.minPerFold) \o ").",
        samplingMix |-> "Baseline: None. If unstable, introduce moderate oversampling."]
  ELSE [foldTarget |-> "Sufficient Minority Samples.",
        samplingMix |-> "Undersampling or Ensemble Methods."]

\* The body of analyzeDataset after its calculateWeights call returned weights.
Recommend(params, weights) ==
  LET strategy == Winner(weights)
      foldAnalysis == analyzeFolds(params.minority, params.folds, params.total)
      n == Narrative(params, strategy, weights)
      f == FoldAdvice(foldAnalysis, params.folds, params.minority)
  IN [strategy |-> strategy,
      title |-> n.title,
      description |-> n.description,
      rationale |-> n.rationale,
      foldTarget |-> f.foldTarget,
      samplingMix |-> f.samplingMix,
      color |-> n.color,
      foldAnalysis |-> foldAnalysis,
      sparsityWarning |-> SparsityWarning(n.sparsityWarning, params.sparsity,
                                          params.sparsityHomogeneity)]

analyzeDataset(params) ==
  Recommend(params, calculateWeights(params.features, params.minority, params.total,
                                     params.sparsity, params.sparsityHomogeneity))


(***************************************************************************)
(* The state machine: the caller holds one DatasetParams value and applies *)
(* one of the engine's exported functions to it.                           *)
(***************************************************************************)
VARIABLES
  params,          \* the DatasetParams passed to the engine
  called,          \* the exported function that was called, if any
  frame,           \* locals of the calculateWeights call at its return
  recommendation,  \* result of analyzeDataset
  strategyRgb,     \* result of getSmoothStrategyRGB
  foldRgb,         \* result of getFoldStabilityRGB
  isDragging,      \* PhaseChart state isDragging, one per chart instance
  hoverInfo,       \* PhaseChart state hoverInfo (valX, valY, isValid), one per
                   \* chart; {} is null; the pixel position is left out
  pointerAt,       \* the chart the pointer is over
  pressed,         \* per chart: a pointer-down arrived and no pointer-up since
  event            \* the last UI event handled and whether it called onUpdate

vars == <<params, called, frame, recommendation, strategyRgb, foldRgb,
          isDragging, hoverInfo, pointerAt, pressed, event>>

\* The variables of the engine calls and those of the user interface.
engine == <<called, frame, recommendation, strategyRgb, foldRgb>>
ui == <<isDragging, hoverInfo, pointerAt, pressed, event>>

\* The four PhaseChart instances the App renders.
Charts == {"MinorityFeatures", "TotalFeatures", "MinorityTotal", "MinorityFolds"}
Outside == "outside"
NoEvent == [type |-> "none", chart |-> Outside, onUpdate |-> FALSE]

\* PhaseChart after mounting: useState(false), useState(null).
Idle ==
  /\ isDragging = [c \in Charts |-> FALSE]
  /\ hoverInfo = [c \in Charts |-> {}]
  /\ pointerAt = Outside
  /\ pressed = [c \in Charts |-> FALSE]
  /\ event = NoEvent

\* Input grids: the band edges of the engine and values on either side.
FeatureValues == {5, 20, 50, 100, 500}
MinorityValues == {10, 50, 100, 150, 190, 200, 250, 500, 1000}
TotalValues == {100, 2000, 200000}
FoldValues == {5, 8, 20, 2000}
SparsityValues == {0, 30, 60, 80, 99}
HomogeneityValues == {0, 20, 50, 80, 100}

\* DatasetParams in their documented ranges.
ValidParams ==
  {p \in [features : FeatureValues, minority : MinorityValues, total : TotalValues,
          folds : FoldValues,
          sparsity : {Pct(n) : n \in SparsityValues},
          sparsityHomogeneity : {Pct(n) : n \in HomogeneityValues}] :
     p.total >= p.minority}

NoWeights == [wOversample |-> 0, wUndersample |-> 0, wHybrid |-> 0, wBaseline |-> 0]
NoFrame == [totalW |-> 0, raw |-> NoWeights, penalty |-> 0,
            ret |-> [wOversample |-> 0, wUndersample |-> 0, wHybrid |-> 0, wBaseline |-> 0,
                     stability |-> 0, dominantOriginal |-> Undefined]]
NoRgb == [r |-> 0, g |-> 0, b |-> 0]
NoRecommendation ==
  [strategy |-> Undefined, title |-> "", description |-> "", rationale |-> "",
   foldTarget |-> "", samplingMix |-> "", color |-> "", sparsityWarning |-> Undefined,
   foldAnalysis |-> [minPerFold |-> 0, minInTraining |-> 0, label |-> "", statusColor |-> "",
                     statusBg |-> "", viabilityScore |-> 0, validationRisk |-> "",
                     trainingImpact |-> ""]]

Init ==
  /\ params \in ValidParams
  /\ called = {}
  /\ frame = NoFrame
  /\ recommendation = NoRecommendation
  /\ strategyRgb = NoRgb
  /\ foldRgb = NoRgb
  /\ Idle

\* recommendation = analyzeDataset(params)
AnalyzeDataset ==
  /\ called = {}
  /\ frame' = CalculateWeightsFrame(params.features, params.minority, params.total,
                                    params.sparsity, params.sparsityHomogeneity)
  /\ recommendation' = Recommend(params, frame'.ret)
  /\ called' = {"analyzeDataset"}
  /\ UNCHANGED <<params, strategyRgb, foldRgb>>
  /\ UNCHANGED ui

\* getSmoothStrategyRGB(features, minority, total, sparsity, sparsityHomogeneity)
GetSmoothStrategyRGB ==
  /\ called = {}
  /\ frame' = CalculateWeightsFrame(params.features, params.minority, params.total,
                                    params.sparsity, params.sparsityHomogeneity)
  /\ strategyRgb' = Blend(frame'.ret)
  /\ called' = {"getSmoothStrategyRGB"}
  /\ UNCHANGED <<params, recommendation, foldRgb>>
  /\ UNCHANGED ui

\* getFoldStabilityRGB(minority, folds)
GetFoldStabilityRGB ==
  /\ called = {}
  /\ foldRgb' = getFoldStabilityRGB(params.minority, params.folds)
  /\ called' = {"getFoldStabilityRGB"}
  /\ UNCHANGED <<params, frame, recommendation, strategyRgb>>
  /\ UNCHANGED ui

Next == AnalyzeDataset \/ GetSmoothStrategyRGB \/ GetFoldStabilityRGB

Spec == Init /\ [][Next]_vars

\* The engine called directly with numbers at and below the low end of the
\* ranges: counts of 0 and 1, and a minority above the total.
BoundaryFeatureValues == {1, 5, 50, 500}
BoundaryMinorityValues == {0, 1, 10}
BoundaryTotalValues == {0, 1, 100}
BoundaryFoldValues == {2, 5, 20}
BoundarySparsityValues == {0, 80}
BoundaryHomogeneityValues == {0, 100}

BoundaryParams ==
  [features : BoundaryFeatureValues, minority : BoundaryMinorityValues,
   total : BoundaryTotalValues, folds : BoundaryFoldValues,
   sparsity : {Pct(n) : n \in BoundarySparsityValues},
   sparsityHomogeneity : {Pct(n) : n \in BoundaryHomogeneityValues}]

InitBoundary ==
  /\ params \in BoundaryParams
  /\ called = {}
  /\ frame = NoFrame
  /\ recommendation = NoRecommendation
  /\ strategyRgb = NoRgb
  /\ foldRgb = NoRgb
  /\ Idle

SpecBoundary == InitBoundary /\ [][Next]_vars

\* Inputs around one minority sample per fold: fold counts up to the
\* slider's range against minority counts just below and at the fold count.
FoldsFeatureValues == {20, 500}
FoldsMinorityValues == {10, 50, 150, 199, 249, 250, 1000}
FoldsTotalValues == {2000, 200000}
FoldsFoldValues == {5, 8, 200, 250, 2000}

FoldsParams ==
  {p \in [features : FoldsFeatureValues, minority : FoldsMinorityValues,
          total : FoldsTotalValues, folds : FoldsFoldValues,
          sparsity : {Pct(0)}, sparsityHomogeneity : {Pct(50)}] :
     p.total >= p.minority}

InitFolds ==
  /\ params \in FoldsParams
  /\ called = {}
  /\ frame = NoFrame
  /\ recommendation = NoRecommendation
  /\ strategyRgb = NoRgb
  /\ foldRgb = NoRgb
  /\ Idle

SpecFolds == InitFolds /\ [][Next]_vars

\* Inputs around the sparsity threshold of getDistanceStability (0.3), over
\* the whole range of the sparsity and homogeneity sliders.
SparsityFeatureValues == {5, 50, 500}
SparsityMinorityValues == {50, 500}
SparsityGridValues == {0, 10, 29, 30, 31, 60, 99}
SparsityHomogeneityValues == {0, 50, 100}

SparsityParams ==
  [features : SparsityFeatureValues, minority : SparsityMinorityValues,
   total : {2000}, folds : {5},
   sparsity : {Pct(n) : n \in SparsityGridValues},
   sparsityHomogeneity : {Pct(n) : n \in SparsityHomogeneityValues}]

InitSparsity ==
  /\ params \in SparsityParams
  /\ called = {}
  /\ frame = NoFrame
  /\ recommendation = NoRecommendation
  /\ strategyRgb = NoRgb
  /\ foldRgb = NoRgb
  /\ Idle

SpecSparsity == InitSparsity /\ [][Next]_vars

\* Inputs at and around the minority threshold of low-dimensional data (200),
\* on small datasets where the efficiency pressure is negligible.
ThresholdFeatureValues == {5, 10, 20}
ThresholdMinorityValues == {150, 190, 200, 210, 250}
ThresholdTotalValues == {250, 500, 2000}
ThresholdSparsityValues == {0, 29}
ThresholdHomogeneityValues == {0, 100}

ThresholdParams ==
  [features : ThresholdFeatureValues, minority : ThresholdMinorityValues,
   total : ThresholdTotalValues, folds : {5},
   sparsity : {Pct(n) : n \in ThresholdSparsityValues},
   sparsityHomogeneity : {Pct(n) : n \in ThresholdHomogeneityValues}]

InitThreshold ==
  /\ params \in ThresholdParams
  /\ called = {}
  /\ frame = NoFrame
  /\ recommendation = NoRecommendation
  /\ strategyRgb = NoRgb
  /\ foldRgb = NoRgb
  /\ Idle

SpecThreshold == InitThreshold /\ [][Next]_vars

(***************************************************************************)
(* The App: the params state, the Controls panel and the four PhaseChart   *)
(* instances.  The recommendation shown is analyzeDataset(params), derived *)
(* at every render; the only stored state is params and, per chart,        *)
(* isDragging and hoverInfo.                                               *)
(***************************************************************************)
CFG_MINORITY == [key |-> "minority", min |-> 10, max |-> 10000]
CFG_FEATURES == [key |-> "features", min |-> 5, max |-> 10000]
CFG_TOTAL == [key |-> "total", min |-> 100, max |-> 10000000]
CFG_FOLDS == [key |-> "folds", min |-> 2, max |-> 100]

\* The xConfig and yConfig props of each chart.
XConfig(c) == IF c = "TotalFeatures" THEN CFG_TOTAL ELSE CFG_MINORITY
YConfig(c) ==
  CASE c = "MinorityFeatures" -> CFG_FEATURES
    [] c = "TotalFeatures" -> CFG_FEATURES
    [] c = "MinorityTotal" -> CFG_TOTAL
    [] c = "MinorityFolds" -> CFG_FOLDS

\* The isValid prop of each chart, a closure over the rendered params.
IsValid(c, p, x, y) ==
  CASE c = "MinorityFeatures" -> x <= p.total
    [] c = "TotalFeatures" -> x >= p.minority
    [] c = "MinorityTotal" -> y >= x
    [] c = "MinorityFolds" -> y <= x

\* Values Math.round(scale.getValue(pct)) yields for pointer positions inside
\* the chart; every one lies between the axis min and max.
ChartSamples ==
  [minority |-> {10, 10000}, features |-> {5}, total |-> {100, 10000000},
   folds |-> {2}]

AxisValues(cfg) == {v \in ChartSamples[cfg.key] : cfg.min <= v /\ v <= cfg.max}

\* Values the sliders (fromSlider) and text boxes (Math.max(min, v)) of the
\* Controls panel pass to update, per key; all are at least the slider's min.
ControlSamples ==
  [features |-> {1}, minority |-> {10, 1000000}, total |-> {100, 10000000},
   folds |-> {10000}, sparsity |-> {Pct(50)}, sparsityHomogeneity |-> {SCALE}]

\* if (newParams.key): the key is present and its value is not 0.
Truthy(newParams, key) == key \in DOMAIN newParams /\ newParams[key] # 0

\* Fault variant of handleUpdate: only the total is corrected.
handleUpdateTotalOnly(prev, newParams) ==
  LET next == [k \in DOMAIN prev |->
                 IF k \in DOMAIN newParams THEN newParams[k] ELSE prev[k]]
  IN IF next.total < next.minority /\ Truthy(newParams, "total")
     THEN [next EXCEPT !.total = next.minority]
     ELSE next

\* The updater handleUpdate passes to setParams, applied to prev.
handleUpdate(prev, newParams) ==
  LET next == [k \in DOMAIN prev |->
                 IF k \in DOMAIN newParams THEN newParams[k] ELSE prev[k]]
      totalFixed == IF Truthy(newParams, "total")
                    THEN [next EXCEPT !.total = next.minority]
                    ELSE next
      minorityFixed == IF Truthy(newParams, "minority")
                       THEN [totalFixed EXCEPT !.minority = totalFixed.total]
                       ELSE totalFixed
  IN IF next.total < next.minority THEN minorityFixed ELSE next

\* The argument updateFromEvent passes to onUpdate: the two axis keys.
AxisUpdate(c, valX, valY) == (XConfig(c).key :> valX) @@ (YConfig(c).key :> valY)

\* useState initial value of params.
InitApp ==
  /\ params = [features |-> 50, minority |-> 150, total |-> 2000, folds |-> 5,
               sparsity |-> 0, sparsityHomogeneity |-> Pct(50)]
  /\ called = {}
  /\ frame = NoFrame
  /\ recommendation = NoRecommendation
  /\ strategyRgb = NoRgb
  /\ foldRgb = NoRgb
  /\ Idle

\* Controls.update(key, val): onChange({...params, [key]: val}).
ControlsUpdate(key, val) ==
  /\ params' = handleUpdate(params, [params EXCEPT ![key] = val])
  /\ event' = [type |-> "change", chart |-> Outside, onUpdate |-> FALSE]
  /\ UNCHANGED <<isDragging, hoverInfo, pointerAt, pressed>>
  /\ UNCHANGED engine

\* handlePointerDown on chart c at the position whose values are valX, valY.
HandlePointerDown(c, valX, valY) ==
  /\ pointerAt \in {c, Outside}
  /\ isDragging' = [isDragging EXCEPT ![c] = TRUE]
  /\ params' = handleUpdate(params, AxisUpdate(c, valX, valY))
  /\ pointerAt' = c
  /\ pressed' = [pressed EXCEPT ![c] = TRUE]
  /\ event' = [type |-> "pointerdown", chart |-> c, onUpdate |-> TRUE]
  /\ UNCHANGED hoverInfo
  /\ UNCHANGED engine

\* Fault variant of HandlePointerMove: the move updates the parameters
\* whether or not a drag is in progress.
HandlePointerMoveAlwaysUpdates(c, valX, valY) ==
  /\ pointerAt \in {c, Outside}
  /\ pointerAt' = c
  /\ params' = handleUpdate(params, AxisUpdate(c, valX, valY))
  /\ event' = [type |-> "pointermove", chart |-> c, onUpdate |-> TRUE]
  /\ UNCHANGED <<isDragging, hoverInfo, pressed>>
  /\ UNCHANGED engine

\* handlePointerMove on chart c at the position whose values are valX, valY.
HandlePointerMove(c, valX, valY) ==
  /\ pointerAt \in {c, Outside}
  /\ pointerAt' = c
  /\ IF isDragging[c]
     THEN /\ params' = handleUpdate(params, AxisUpdate(c, valX, valY))
          /\ event' = [type |-> "pointermove", chart |-> c, onUpdate |-> TRUE]
          /\ UNCHANGED hoverInfo
     ELSE /\ hoverInfo' = [hoverInfo EXCEPT ![c] =
                             {[valX |-> valX, valY |-> valY,
                               isValid |-> IsValid(c, params, valX, valY)]}]
          /\ event' = [type |-> "pointermove", chart |-> c, onUpdate |-> FALSE]
          /\ UNCHANGED params
  /\ UNCHANGED <<isDragging, pressed>>
  /\ UNCHANGED engine

\* onPointerUp: setIsDragging(false) and release of the pointer capture.
HandlePointerUp(c) ==
  /\ pointerAt = c
  /\ isDragging' = [isDragging EXCEPT ![c] = FALSE]
  /\ pressed' = [pressed EXCEPT ![c] = FALSE]
  /\ event' = [type |-> "pointerup", chart |-> c, onUpdate |-> FALSE]
  /\ UNCHANGED <<params, hoverInfo, pointerAt>>
  /\ UNCHANGED engine

\* onPointerLeave: setHoverInfo(null).
HandlePointerLeave(c) ==
  /\ pointerAt = c
  /\ hoverInfo' = [hoverInfo EXCEPT ![c] = {}]
  /\ pointerAt' = Outside
  /\ event' = [type |-> "pointerleave", chart |-> c, onUpdate |-> FALSE]
  /\ UNCHANGED <<params, isDragging, pressed>>
  /\ UNCHANGED engine

\* The hover tooltip is rendered: hoverInfo && !isDragging.
TooltipShown(c) == hoverInfo[c] # {} /\ ~isDragging[c]

NextApp ==
  \/ \E key \in DOMAIN ControlSamples : \E val \in ControlSamples[key] :
       ControlsUpdate(key, val)
  \/ \E c \in Charts : \E valX \in AxisValues(XConfig(c)) :
       \E valY \in AxisValues(YConfig(c)) : HandlePointerDown(c, valX, valY)
  \/ \E c \in Charts : \E valX \in AxisValues(XConfig(c)) :
       \E valY \in AxisValues(YConfig(c)) : HandlePointerMove(c, valX, valY)
  \/ \E c \in Charts : HandlePointerUp(c)
  \/ \E c \in Charts : HandlePointerLeave(c)

SpecApp == InitApp /\ [][NextApp]_vars


(***************************************************************************)
(* Properties.                                                             *)
(***************************************************************************)
Analyzed == called = {"analyzeDataset"}
\* calculateWeights has returned (from either of its two callers).
Weighed == called = {"analyzeDataset"} \/ called = {"getSmoothStrategyRGB"}

SumW(w) == w.wOversample + w.wUndersample + w.wHybrid + w.wBaseline
MaxW(w) == Max(Max(w.wOversample, w.wUndersample), Max(w.wHybrid, w.wBaseline))
WeightOf(w, s) ==
  CASE s = OVERSAMPLE -> w.wOversample
    [] s = UNDERSAMPLE -> w.wUndersample
    [] s = HYBRID -> w.wHybrid
    [] s = BASELINE -> w.wBaseline
Abs(x) == IF x < 0 THEN -x ELSE x
Forced == WasForcedToBaseline(recommendation.strategy, frame.ret.dominantOriginal)
Structured == params.sparsity > Pct(50) /\ params.sparsityHomogeneity < Pct(30)

\* C1: for every valid input the four weights returned by calculateWeights
\* are each >= 0 and their sum is strictly greater than 0.
C1_WeightsNonNegative ==
  Weighed =>
    /\ frame.ret.wOversample >= 0
    /\ frame.ret.wUndersample >= 0
    /\ frame.ret.wHybrid >= 0
    /\ frame.ret.wBaseline >= 0
    /\ SumW(frame.ret) > 0

\* C1 witness: the heaviest penalty of the input range (sparsity 0.99, uniform)
\* has taken most of the weight away, and a positive sum is left.
C1_Witness ==
  /\ Weighed
  /\ params.sparsity = Pct(99) /\ params.sparsityHomogeneity = Pct(100)
  /\ frame.penalty > Pct(90)
  /\ SumW(frame.raw) > Pct(90)
  /\ SumW(frame.ret) < Pct(10)

\* C2: the penalty step conserves total weight: oversample and hybrid each
\* lose the fraction `penalty` of their pre-penalty value, baseline gains
\* penalty * (oversample_pre + hybrid_pre), undersample is unchanged, and the
\* sum of the four weights after the penalty equals the sum before it (here:
\* up to two units of rounding).
C2_PenaltyConservesWeight ==
  Weighed =>
    LET raw == frame.raw
        ret == frame.ret
        pen == frame.penalty
    IN /\ ret.wOversample = raw.wOversample - Mul(raw.wOversample, pen)
       /\ ret.wHybrid = raw.wHybrid - Mul(raw.wHybrid, pen)
       /\ ret.wUndersample = raw.wUndersample
       /\ Abs((ret.wBaseline - raw.wBaseline)
              - (Mul(raw.wOversample, pen) + Mul(raw.wHybrid, pen))) <= 2
       /\ Abs(SumW(ret) - SumW(raw)) <= 2

\* C3: analyzeDataset selects a strategy whose post-penalty weight is the
\* maximum of the four, and among equal maxima the first in the order
\* baseline, oversample, hybrid, undersample.
C3_WinnerIsArgMax ==
  Analyzed =>
    LET w == frame.ret
        m == MaxW(w)
        s == recommendation.strategy
    IN /\ s \in StrategyType
       /\ WeightOf(w, s) = m
       /\ s = (IF w.wBaseline = m THEN BASELINE
               ELSE IF w.wOversample = m THEN OVERSAMPLE
               ELSE IF w.wHybrid = m THEN HYBRID
               ELSE UNDERSAMPLE)

\* C3 witness: oversample and hybrid share the maximum and oversample is chosen.
C3_Witness ==
  /\ Analyzed
  /\ frame.ret.wOversample = MaxW(frame.ret)
  /\ frame.ret.wHybrid = MaxW(frame.ret)
  /\ frame.ret.wBaseline < MaxW(frame.ret)
  /\ recommendation.strategy = OVERSAMPLE

\* The classification the fold rule prescribes, on exact integer arithmetic:
\* minority/k < 1.5 iff 2*minority < 3*k, and minority/k < 15 iff minority < 15*k.
ExpectedFoldLabel(minority, folds, total) ==
  LET k == Min(folds, total)
  IN IF k >= total \/ k >= 5000 THEN "Leave-One-Out Cross-Validation"
     ELSE IF k > minority THEN "Statistically Invalid"
     ELSE IF 2 * minority < 3 * k THEN "Leave-One-Positive-Out (Stratified)"
     ELSE IF minority < 15 * k THEN "High Variance Region"
     ELSE "Stable Evaluation"

C5_ViabilityScore ==
  Analyzed =>
    LET k == Min(params.folds, params.total)
        isLOO == k >= params.total \/ k >= 5000
        score == recommendation.foldAnalysis.viabilityScore
        exact == (params.minority * SCALE * 10) \div (3 * k)
    IN /\ 0 <= score /\ score <= Fix(100)
       /\ IF k > params.minority /\ ~isLOO THEN score = 0
          ELSE IF exact >= Fix(100) THEN score = Fix(100)
          ELSE Abs(score - exact) <= 4

\* C5 witness: 20 folds on 10 minority samples, not Leave-One-Out, score 0.
C5_Witness ==
  /\ Analyzed
  /\ params.minority = 10 /\ params.folds = 20 /\ params.total = 2000
  /\ recommendation.foldAnalysis.label = "Statistically Invalid"
  /\ recommendation.foldAnalysis.viabilityScore = 0

\* The input of C6 and of its amendment.
C6_Input ==
  /\ params.features = 5 /\ params.minority = 50
  /\ params.total = 2000 /\ params.folds = 5
  /\ params.sparsity = Pct(80) /\ params.sparsityHomogeneity = Pct(80)

\* C6 as claimed: with sparsity 0.8, homogeneity 0.8, features 5, minority 50
\* (total 2000, folds 5) the pre-penalty dominant strategy is OVERSAMPLE, the
\* post-penalty winner is BASELINE (forced to baseline) and sparsityWarning
\* is set.
C6_ForcedToBaselineExample ==
  (Analyzed /\ C6_Input) =>
    /\ frame.ret.dominantOriginal = OVERSAMPLE
    /\ recommendation.strategy = BASELINE
    /\ Forced
    /\ recommendation.sparsityWarning # Undefined

\* C6 amended: with that input the pre-penalty dominant strategy is OVERSAMPLE
\* and the post-penalty winner is still OVERSAMPLE (the penalty is below one
\* half), so the forced-to-baseline path is not taken; sparsityWarning is set,
\* to the caution text of the independent sparsity > 0.6 rule.
C6_ExampleKeepsOversample ==
  (Analyzed /\ C6_Input) =>
    /\ frame.ret.dominantOriginal = OVERSAMPLE
    /\ frame.penalty < Pct(50)
    /\ frame.ret.wOversample > frame.ret.wBaseline
    /\ recommendation.strategy = OVERSAMPLE
    /\ ~Forced
    /\ recommendation.title = "Oversampling or Hybrid"
    /\ recommendation.sparsityWarning
         = "Caution: High sparsity reduces distance metric reliability."

\* C6 witness: analyzeDataset has run on that input.
C6_Witness == Analyzed /\ C6_Input /\ recommendation.strategy = OVERSAMPLE

\* C7: for a low-dimensional, minority-scarce, non-sparse input (features <=
\* 20, minority < threshold(features) = 200, sparsity 0) analyzeDataset
\* returns OVERSAMPLE or HYBRID and leaves sparsityWarning unset.
C7_LowDimScarce ==
  (/\ Analyzed
   /\ params.features <= DIM_LOW
   /\ Fix(params.minority) < getMinorityThreshold(params.features)
   /\ params.sparsity = 0) =>
    /\ recommendation.strategy \in {OVERSAMPLE, HYBRID}
    /\ recommendation.sparsityWarning = Undefined

Palette == {"#ef4444", "#3b82f6", "#a855f7", "#10b981"}

\* C8: the color of every Recommendation is one of the four palette strings.
C8_ColorInPalette == Analyzed => recommendation.color \in Palette

\* C8 witness: the structured-sparsity branch has reassigned the colour.
C8_Witness ==
  /\ Analyzed /\ Forced /\ Structured
  /\ recommendation.color = "#ef4444"

\* C9 as claimed: color is the palette colour of the returned strategy.
C9_ColorTiedToStrategy ==
  Analyzed => recommendation.color = COLORS[recommendation.strategy]

\* C9 amended: color is the palette colour of the returned strategy in every
\* Recommendation except those of the structured-sparsity branch (forced to
\* baseline with sparsity > 0.5 and homogeneity < 0.3, title "Specialized ...").
C9_ColorTiedUnlessSpecialized ==
  (Analyzed /\ ~(Forced /\ Structured)) =>
    recommendation.color = COLORS[recommendation.strategy]

\* C9 witness: a forced-to-baseline recommendation outside the structured
\* branch, carrying the baseline colour.
C9_Witness ==
  /\ Analyzed /\ Forced /\ ~Structured
  /\ recommendation.strategy = BASELINE
  /\ recommendation.color = "#10b981"

\* C10: forced to baseline with sparsity > 0.5 and homogeneity < 0.3, the
\* result has strategy BASELINE, title "Specialized <pre-penalty dominant>",
\* a sparsityWarning, and the colour of the pre-penalty dominant strategy
\* (OVERSAMPLE or HYBRID), not the baseline colour; forced to baseline
\* without that condition, the colour stays the baseline colour.
C10_ForcedColor ==
  (Analyzed /\ Forced) =>
    LET dom == frame.ret.dominantOriginal
    IN IF Structured
       THEN /\ recommendation.strategy = BASELINE
            /\ dom \in {OVERSAMPLE, HYBRID}
            /\ recommendation.title = "Specialized " \o dom
            /\ recommendation.sparsityWarning
                 = "Recommendation: Utilize SMOTE-NC or feature-specific handling."
            /\ recommendation.color = COLORS[dom]
            /\ recommendation.color # COLORS[BASELINE]
       ELSE /\ recommendation.strategy = BASELINE
            /\ recommendation.color = COLORS[BASELINE]

\* C10 witness: forced out of HYBRID under structured sparsity, purple.
C10_Witness ==
  /\ Analyzed /\ Forced /\ Structured
  /\ frame.ret.dominantOriginal = HYBRID
  /\ recommendation.title = "Specialized Hybrid"
  /\ recommendation.color = "#a855f7"

\* C11: whenever sparsity > 0.6 the Recommendation has sparsityWarning set.
\* A warning set by the forced-to-baseline branch is kept as that branch
\* wrote it; otherwise the text is the structured-sparsity phrasing when
\* homogeneity < 0.4 and the caution phrasing when it is not.
C11_SparsityWarningSet ==
  (Analyzed /\ params.sparsity > Pct(60)) =>
    /\ recommendation.sparsityWarning # Undefined
    /\ recommendation.sparsityWarning # ""
    /\ recommendation.sparsityWarning =
         (IF Forced
          THEN (IF Structured
                THEN "Recommendation: Utilize SMOTE-NC or feature-specific handling."
                ELSE "Critical Sparsity: Euclidean distance metrics are unstable.")
          ELSE (IF params.sparsityHomogeneity < Pct(40)
                THEN "Structured Sparsity: Use Nominal/Continuous variants (e.g., SMOTE-NC)."
                ELSE "Caution: High sparsity reduces distance metric reliability."))

\* C11 witness: forced to baseline at sparsity 0.8, the forced branch's
\* warning is still in place after the independent rule has run.
C11_Witness ==
  /\ Analyzed /\ Forced /\ ~Structured
  /\ params.sparsity = Pct(80)
  /\ recommendation.sparsityWarning
       = "Critical Sparsity: Euclidean distance metrics are unstable."

\* minority lies strictly within 20% of the threshold of its feature count.
InTransitionZone ==
  LET threshold == getMinorityThreshold(params.features)
  IN /\ Fix(params.minority) > (threshold * 8) \div 10
     /\ Fix(params.minority) < (threshold * 12) \div 10

\* C12: whenever 0.8*T < minority < 1.2*T and the recommendation is not
\* forced to baseline, the rationale contains the transition-zone note, in
\* every one of the six dimensionality x scarcity templates.
C12_TransitionNoteInEveryTemplate ==
  (Analyzed /\ InTransitionZone /\ ~Forced) =>
    Includes(recommendation.rationale, "You are in a complex transition zone.")

\* The fold analysis of (folds, total) is Leave-One-Out.
IsLeaveOneOut(folds, total) == Min(folds, total) >= total \/ Min(folds, total) >= 5000

\* x starts with prefix.
StartsWith(x, prefix) == Len(x) >= Len(prefix) /\ SubSeq(x, 1, Len(prefix)) = prefix

\* C13: foldTarget and samplingMix are chosen in this precedence:
\* Leave-One-Out gives "Leave-One-Out (LOOCV)"; else folds > minority gives
\* "INVALID CONFIGURATION"; else minority < 200 gives the ">15 samples per
\* fold" target, minority < 500 the ">30 samples per fold" target, and
\* minority >= 500 "Sufficient Minority Samples."  The choice is a function
\* of minority, folds and total alone: features, sparsity and the selected
\* strategy do not enter it.
C13_FoldTargetPrecedence ==
  Analyzed =>
    LET m == params.minority
        f == params.folds
        target == recommendation.foldTarget
        mix == recommendation.samplingMix
    IN IF IsLeaveOneOut(f, params.total)
       THEN target = "Leave-One-Out (LOOCV)" /\ mix = "N/A (All data utilized)."
       ELSE IF f > m
       THEN target = "INVALID CONFIGURATION" /\ StartsWith(mix, "Cannot stratify ")
       ELSE IF m < 200
       THEN /\ StartsWith(target, "Target >15 samples per fold (Current: ")
            /\ StartsWith(mix, "Primary: Oversampling.")
       ELSE IF m < 500
       THEN /\ StartsWith(target, "Target >30 samples per fold (Current: ")
            /\ StartsWith(mix, "Baseline: None.")
       ELSE /\ target = "Sufficient Minority Samples."
            /\ mix = "Undersampling or Ensemble Methods."

\* C13 witness: 2000 folds on 2000 rows with 100 minority samples is
\* Leave-One-Out and has folds > minority; Leave-One-Out wins.
C13_Witness ==
  /\ Analyzed
  /\ params.folds = 2000 /\ params.total = 2000 /\ params.minority = 100
  /\ recommendation.foldTarget = "Leave-One-Out (LOOCV)"

Blended == called = {"getSmoothStrategyRGB"}
FoldColored == called = {"getFoldStabilityRGB"}

\* A fixed-point channel value is a whole number / lies in [0, 255].
IsInteger(x) == x % SCALE = 0
InByteRange(x) == 0 <= x /\ x <= Fix(255)

Normalized(w) ==
  LET total == IF SumW(w) = 0 THEN SCALE ELSE SumW(w)
  IN [t \in StrategyType |-> DivFix(WeightOf(w, t), total)]

\* C15: getSmoothStrategyRGB divides the four post-penalty weights by their
\* sum, so the normalized weights are non-negative and sum to 1 (here: to
\* within four units of rounding), each channel is the weighted sum of the
\* four anchor colours, and each channel lies between the minimum and the
\* maximum of that channel over the anchors: r in [16, 239], g in [68, 185],
\* b in [68, 247].
C15_BlendInAnchorHull ==
  Blended =>
    LET n == Normalized(frame.ret)
        sumN == n[OVERSAMPLE] + n[UNDERSAMPLE] + n[HYBRID] + n[BASELINE]
    IN /\ \A t \in StrategyType : n[t] >= 0
       /\ SCALE - 4 <= sumN /\ sumN <= SCALE
       /\ strategyRgb.r = 239 * n[OVERSAMPLE] + 59 * n[UNDERSAMPLE]
                            + 168 * n[HYBRID] + 16 * n[BASELINE]
       /\ strategyRgb.g = 68 * n[OVERSAMPLE] + 130 * n[UNDERSAMPLE]
                            + 85 * n[HYBRID] + 185 * n[BASELINE]
       /\ strategyRgb.b = 68 * n[OVERSAMPLE] + 246 * n[UNDERSAMPLE]
                            + 247 * n[HYBRID] + 129 * n[BASELINE]
       /\ Fix(16) <= strategyRgb.r /\ strategyRgb.r <= Fix(239)
       /\ Fix(68) <= strategyRgb.g /\ strategyRgb.g <= Fix(185)
       /\ Fix(68) <= strategyRgb.b /\ strategyRgb.b <= Fix(247)

\* C15 witness: a blend after a penalty that left the weights summing to
\* well under 1, with all four strategies taking part.
C15_Witness ==
  /\ Blended
  /\ SumW(frame.ret) < Pct(80)
  /\ \A t \in StrategyType : WeightOf(frame.ret, t) > 0
  /\ strategyRgb.r > Fix(16) /\ strategyRgb.r < Fix(239)

\* The band of m = minority / max(1, folds), on exact integer arithmetic.
FoldBand(minority, folds) ==
  LET k == Max(1, folds)
  IN IF minority < k THEN "void"
     ELSE IF minority < 5 * k THEN "red"
     ELSE IF minority < 30 * k THEN "interpolated"
     ELSE "green"

\* from + (to - from) * (m - 5) / 25 with m = minority / k, as fixed point.
Interpolated(from, to, minority, k) ==
  Fix(from) + ((to - from) * (minority - 5 * k) * SCALE) \div (25 * k)

\* C16: getFoldStabilityRGB depends only on m = minority / max(1, folds):
\* m < 1 gives (20,10,10); 1 <= m < 5 gives (220,40,40); 5 <= m < 30 gives the
\* linear interpolation with t = (m - 5) / 25 from (239,68,68) towards
\* (16,185,129) (here: to within 2 units of rounding in t); m >= 30 gives
\* (16,185,129).  Two inputs with the same m get the same triple, and of two
\* inputs in the same band the one with the larger m has no more red and no
\* less green.
C16_FoldColorBands ==
  FoldColored =>
    LET minority == params.minority
        k == Max(1, params.folds)
        band == FoldBand(minority, params.folds)
    IN /\ band = "void" => foldRgb = [r |-> Fix(20), g |-> Fix(10), b |-> Fix(10)]
       /\ band = "red" => foldRgb = [r |-> Fix(220), g |-> Fix(40), b |-> Fix(40)]
       /\ band = "interpolated" =>
            /\ Abs(foldRgb.r - Interpolated(239, 16, minority, k)) <= 2 * (239 - 16)
            /\ Abs(foldRgb.g - Interpolated(68, 185, minority, k)) <= 2 * (185 - 68)
            /\ Abs(foldRgb.b - Interpolated(68, 129, minority, k)) <= 2 * (129 - 68)
       /\ band = "green" => foldRgb = [r |-> Fix(16), g |-> Fix(185), b |-> Fix(129)]
       /\ \A m2 \in MinorityValues, f2 \in FoldValues :
            LET other == getFoldStabilityRGB(m2, f2)
            IN /\ m2 * k = minority * Max(1, f2) => other = foldRgb
               /\ (FoldBand(m2, f2) = band /\ m2 * k >= minority * Max(1, f2)) =>
                    (other.r <= foldRgb.r /\ other.g >= foldRgb.g)

\* C16 witness: 100 minority samples in 20 folds, m = 5 exactly, the start
\* of the interpolation at (239,68,68).
C16_Witness ==
  /\ FoldColored
  /\ params.minority = 100 /\ params.folds = 20
  /\ foldRgb = [r |-> Fix(239), g |-> Fix(68), b |-> Fix(68)]

FoldLabels == {FOLD_STATUS_CONFIG[k].label : k \in {"LOO", "IMPOSSIBLE", "LOPO", "VARIANCE", "STABLE"}}

\* C18: for boundary inputs, minority = 0 and total = 0 included,
\* calculateWeights, analyzeDataset and getSmoothStrategyRGB return a result
\* value: four non-negative weights with a positive sum, equal to those of
\* the same call with the counts floored at 1; a strategy of the enumeration
\* with non-empty texts and one of the five fold labels; channels in
\* [0, 255].  folds > minority outside Leave-One-Out is reported as data:
\* label "Statistically Invalid", viabilityScore 0, foldTarget "INVALID
\* CONFIGURATION".
C18_BoundaryInputsReturn ==
  /\ Weighed =>
       /\ \A t \in StrategyType : WeightOf(frame.ret, t) >= 0
       /\ SumW(frame.ret) > 0
       /\ frame = CalculateWeightsFrame(params.features, Max(1, params.minority),
                                        Max(1, params.total), params.sparsity,
                                        params.sparsityHomogeneity)
  /\ Blended =>
       \A c \in {strategyRgb.r, strategyRgb.g, strategyRgb.b} : InByteRange(c)
  /\ Analyzed =>
       /\ recommendation.strategy \in StrategyType
       /\ recommendation.title # "" /\ recommendation.description # ""
       /\ recommendation.rationale # "" /\ recommendation.foldTarget # ""
       /\ recommendation.samplingMix # ""
       /\ recommendation.color \in Palette
       /\ recommendation.foldAnalysis.label \in FoldLabels
       /\ (params.folds > params.minority
            /\ ~IsLeaveOneOut(params.folds, params.total)) =>
              /\ recommendation.foldAnalysis.label = "Statistically Invalid"
              /\ recommendation.foldAnalysis.viabilityScore = 0
              /\ recommendation.foldTarget = "INVALID CONFIGURATION"

\* C18 witness: analyzeDataset has returned for minority = 0 in 5 folds of
\* 100 rows, with the invalid configuration reported in the result.
C18_Witness ==
  /\ Analyzed
  /\ params.minority = 0 /\ params.total = 100 /\ params.folds = 5
  /\ recommendation.strategy \in StrategyType
  /\ recommendation.foldTarget = "INVALID CONFIGURATION"

\* C19 as claimed: the reported minPerFold is the true value minority /
\* min(folds, total) with the digits after the second decimal cut off when
\* the true value is < 1, and its integer part otherwise; so the reported
\* value is < 1 whenever the true value is < 1.  (reported is in hundredths.)
C19_MinPerFoldTruncated ==
  Analyzed =>
    LET m == params.minority
        k == Min(params.folds, params.total)
        reported == recommendation.foldAnalysis.minPerFold
    IN IF m < k
       THEN reported = (100 * m) \div k /\ reported < 100
       ELSE reported = 100 * (m \div k)

\* C19 amended: when the true value is < 1 the reported minPerFold is a
\* hundredth nearest to it (toFixed(2) rounds), so it is <= 1 and it is 1
\* when the true value is above 0.995; otherwise it is the integer part.
C19_MinPerFoldRounded ==
  Analyzed =>
    LET m == params.minority
        k == Min(params.folds, params.total)
        reported == recommendation.foldAnalysis.minPerFold
    IN IF m < k
       THEN /\ 2 * Abs(100 * m - reported * k) <= k
            /\ reported <= 100
            /\ 200 * m > 199 * k => reported = 100
       ELSE reported = 100 * (m \div k)

\* C19 witness: 249 minority samples in 250 folds, 0.996 per fold, reported
\* as 1 (under the label for folds > minority).
C19_Witness ==
  /\ Analyzed
  /\ params.minority = 249 /\ params.folds = 250
  /\ recommendation.foldAnalysis.label = "Statistically Invalid"
  /\ recommendation.foldAnalysis.minPerFold = 100

\* Only the high-dimensional regime is active for the feature count.
OnlyHighDim ==
  IsLowDim(params.features) <= Pct(1) /\ IsMedDim(params.features) <= Pct(1)

\* C20: when only the high-dimensional regime is active (isLowDim <= 0.01
\* and isMedDim <= 0.01) the weights before the penalty go to hybrid and
\* undersample only, the baseline weight before the penalty is 0, and a
\* baseline weight after the penalty comes from the penalty on hybrid alone:
\* it is at most penalty * hybrid, and 0 without a penalty or without hybrid.
C20_HighDimNeverAwardsBaseline ==
  (Weighed /\ OnlyHighDim) =>
    /\ frame.raw.wBaseline = 0
    /\ frame.raw.wOversample = 0
    /\ frame.raw.wHybrid + frame.raw.wUndersample > 0
    /\ frame.ret.wBaseline <= Mul(frame.raw.wHybrid, frame.penalty)
    /\ (frame.penalty = 0 \/ frame.raw.wHybrid = 0) => frame.ret.wBaseline = 0

\* C20 witness: 500 features, both hybrid and undersample weighted before the
\* penalty, and a penalty that has moved weight from hybrid to baseline.
C20_Witness ==
  /\ Weighed /\ OnlyHighDim
  /\ params.features = 500
  /\ frame.raw.wHybrid > 0 /\ frame.raw.wUndersample > 0
  /\ frame.penalty > 0
  /\ frame.ret.wBaseline > 0

\* C21: dominantOriginal is a strategy whose weight before the penalty equals
\* the maximum of the four weights before the penalty, and among equal
\* maxima the first in the order oversample, hybrid, undersample, baseline.
C21_DominantOriginalIsArgMax ==
  Weighed =>
    LET raw == frame.raw
        m == MaxW(raw)
        dom == frame.ret.dominantOriginal
    IN /\ dom \in StrategyType
       /\ WeightOf(raw, dom) = m
       /\ dom = (IF raw.wOversample = m THEN OVERSAMPLE
                 ELSE IF raw.wHybrid = m THEN HYBRID
                 ELSE IF raw.wUndersample = m THEN UNDERSAMPLE
                 ELSE BASELINE)

\* C21 witness: oversample and hybrid share the maximum before the penalty,
\* the penalty has since made baseline the largest weight, and
\* dominantOriginal is still OVERSAMPLE.
C21_Witness ==
  /\ Weighed
  /\ frame.raw.wOversample = MaxW(frame.raw)
  /\ frame.raw.wHybrid = MaxW(frame.raw)
  /\ frame.ret.wBaseline = MaxW(frame.ret)
  /\ frame.ret.wBaseline > frame.ret.wOversample
  /\ frame.ret.dominantOriginal = OVERSAMPLE

\* C22: when sparsity < 0.3, stability is exactly 1 and the four weights
\* after the penalty step equal the four weights before it, for every
\* homogeneity; for sparsity in [0.3, 0.99] stability lies in [0, 1].
C22_NoPenaltyBelowThreshold ==
  Weighed =>
    /\ params.sparsity < Pct(30) =>
         /\ frame.ret.stability = SCALE
         /\ frame.penalty = 0
         /\ \A t \in StrategyType : WeightOf(frame.ret, t) = WeightOf(frame.raw, t)
    /\ (params.sparsity >= Pct(30) /\ params.sparsity <= Pct(99)) =>
         /\ 0 <= frame.ret.stability /\ frame.ret.stability <= SCALE

\* C22 witness: sparsity 0.29 at homogeneity 1, stability 1, and the
\* oversample weight has come through the penalty step unchanged.
C22_Witness ==
  /\ Weighed
  /\ params.sparsity = Pct(29) /\ params.sparsityHomogeneity = Pct(100)
  /\ frame.ret.stability = SCALE
  /\ frame.raw.wOversample > 0
  /\ frame.ret.wOversample = frame.raw.wOversample

\* C23: foldTarget is "INVALID CONFIGURATION" if and only if the embedded
\* foldAnalysis has the "Statistically Invalid" status; min(folds, total)
\* differs from folds only in cases that are Leave-One-Out.
C23_ImpossibleDetectorsAgree ==
  Analyzed =>
    /\ (recommendation.foldTarget = "INVALID CONFIGURATION")
         <=> (recommendation.foldAnalysis.label = "Statistically Invalid")
    /\ Min(params.folds, params.total) # params.folds =>
         recommendation.foldAnalysis.label = "Leave-One-Out Cross-Validation"

\* C23 witness: 2000 folds on 100 rows, all of them minority: the effective
\* fold count 100 is not above the minority count while folds is, and the
\* case is Leave-One-Out in both places.
C23_Witness ==
  /\ Analyzed
  /\ params.folds = 2000 /\ params.total = 100 /\ params.minority = 100
  /\ recommendation.foldAnalysis.label = "Leave-One-Out Cross-Validation"
  /\ recommendation.foldTarget = "Leave-One-Out (LOOCV)"

\* Messaging of the forced-to-baseline branch is present in the result.
ForcedMessaging ==
  \/ StartsWith(recommendation.title, "Specialized ")
  \/ recommendation.description = "Structured Sparsity Detected."
  \/ recommendation.description = "Uniform Sparsity Risks Interpolation."
  \/ recommendation.sparsityWarning
       = "Critical Sparsity: Euclidean distance metrics are unstable."
  \/ recommendation.sparsityWarning
       = "Recommendation: Utilize SMOTE-NC or feature-specific handling."

C25_LooTargetIffLooLabel ==
  Analyzed =>
    /\ recommendation.foldAnalysis.label \in FoldLabels
    /\ (recommendation.foldTarget = "Leave-One-Out (LOOCV)")
         <=> (recommendation.foldAnalysis.label = FOLD_STATUS_CONFIG["LOO"].label)
    /\ \A l \in FoldLabels :
         Includes(l, "Leave-One-Out") <=> (l = FOLD_STATUS_CONFIG["LOO"].label)

\* C25 witness: a Leave-One-Positive-Out result, whose label shares the prefix
\* "Leave-One-" with the Leave-One-Out label, got a different foldTarget.
C25_Witness ==
  /\ Analyzed
  /\ recommendation.foldAnalysis.label = FOLD_STATUS_CONFIG["LOPO"].label
  /\ recommendation.foldTarget # "Leave-One-Out (LOOCV)"

\* The titles of the narrative templates that name a resampling family.
UndersamplingTitles == {"Undersampling (Efficiency Priority)", "Undersampling Strategy"}

OversamplingTitles ==
  {"Oversampling or Hybrid", "Hybrid Strategy (Over + Under)",
   "Hybrid or Algorithmic Approaches"}

\* C28: the returned title agrees with the returned strategy tag: a title
\* naming undersampling only with strategy UNDERSAMPLE, a title naming
\* oversampling or hybrid only with strategy OVERSAMPLE or HYBRID.
C28_TitleAgreesWithStrategy ==
  Analyzed =>
    /\ recommendation.title \in UndersamplingTitles =>
         recommendation.strategy = UNDERSAMPLE
    /\ recommendation.title \in OversamplingTitles =>
         recommendation.strategy \in {OVERSAMPLE, HYBRID}

\* The regime indicators that exceed 0.01, summed.
ActiveRegimes(p) ==
  (IF IsLowDim(p) > Pct(1) THEN IsLowDim(p) ELSE 0)
  + (IF IsMedDim(p) > Pct(1) THEN IsMedDim(p) ELSE 0)
  + (IF IsHighDim(p) > Pct(1) THEN IsHighDim(p) ELSE 0)

\* C29: the total weight before the penalty equals the sum of the regime
\* indicators that exceed 0.01 (up to the roundings of its twelve products),
\* the three indicators sum to 1, the total is at least 0.98, and the
\* fallback that forces baseline = 1 when the total is below 0.001 is not
\* taken: the weights after the fallback step still sum to that total.
C29_FallbackNeverTaken ==
  Weighed =>
    /\ IsLowDim(params.features) + IsMedDim(params.features)
         + IsHighDim(params.features) = SCALE
    /\ frame.totalW <= ActiveRegimes(params.features)
    /\ ActiveRegimes(params.features) - frame.totalW <= 12
    /\ ActiveRegimes(params.features) >= Pct(98)
    /\ frame.totalW >= Pct(98) - 12
    /\ frame.totalW >= SCALE \div 1000
    /\ SumW(frame.raw) = frame.totalW

\* C29 witness: 50 features, where the low-dimensional indicator is below
\* 0.01 and its regime is skipped, so the total is short of 1 by that
\* indicator and still above 0.98.
C29_Witness ==
  /\ Weighed
  /\ params.features = 50
  /\ IsLowDim(params.features) > 0 /\ IsLowDim(params.features) <= Pct(1)
  /\ frame.totalW < SCALE - 12
  /\ frame.totalW >= Pct(98) - 12
  /\ SumW(frame.raw) = frame.totalW

\* C26: in the App parameter state the stored total is never below the
\* stored minority, whatever sequence of slider, text box and chart updates
\* (all with positive values) has been applied from minority = 150,
\* total = 2000.
C26_TotalNotBelowMinority == params.total >= params.minority

\* C26 witness: a chart or slider asked for 10000 minority samples with a
\* smaller total, and handleUpdate stored total = minority = 10000, a total
\* no control offers.
C26_Witness ==
  /\ event.type \in {"change", "pointerdown", "pointermove"}
  /\ params.minority = 10000 /\ params.total = 10000

\* A pointer event changes params only by calling onUpdate; a move handled
\* outside a drag leaves params and isDragging alone and sets hoverInfo.
PointerStep ==
  /\ (event'.type \in {"pointerdown", "pointermove", "pointerup", "pointerleave"}
      /\ params' # params) => event'.onUpdate
  /\ (event'.type = "pointermove" /\ ~pressed'[event'.chart] /\ event' # event) =>
       /\ params' = params
       /\ isDragging' = isDragging
       /\ hoverInfo'[event'.chart] # {}

\* C27: a PhaseChart calls onUpdate on every pointer-down, and on a
\* pointer-move exactly when a pointer-down arrived before it with no
\* pointer-up in between; pointer-up and pointer-leave never call it; a
\* pointer-move outside a drag only sets the hover tooltip; and no tooltip
\* is shown on a chart that is being dragged.
C27_UpdatesOnlyDuringDrag ==
  /\ [](/\ event.type = "pointerdown" => event.onUpdate
        /\ event.type = "pointermove" => (event.onUpdate <=> pressed[event.chart])
        /\ event.type \in {"pointerup", "pointerleave"} => ~event.onUpdate
        /\ \A c \in Charts : pressed[c] => ~TooltipShown(c))
  /\ [][PointerStep]_vars

\* C27 witness: a chart holds hover information from before the drag, is
\* being dragged, and the last event was a move that called onUpdate.
C27_Witness ==
  /\ event.type = "pointermove" /\ event.onUpdate
  /\ pressed[event.chart]
  /\ hoverInfo[event.chart] # {}
  /\ ~TooltipShown(event.chart)

====
